---- MODULE Spec2Model ----
(***************************************************************************)
(* A model of the YATA sequence CRDT of this repository: the block Store   *)
(* (store.rs), Block (block.rs), Document (document.rs), DeleteSet         *)
(* (delete_set.rs) and Update (update.rs).                                 *)
(*                                                                         *)
(* Option<BlockId> is modelled as a tuple: None is <<>> and                *)
(* Some(BlockId { client_id, clock }) is <<client_id, clock>>.             *)
(* Store.data (HashMap<ClientId, Vec<Block>>) is a function over ClientIds *)
(* to sequences of blocks; a key that is absent from the HashMap is the    *)
(* empty sequence (the code never stores an empty Vec under a key).        *)
(* A Vec position k (0-based) is the sequence position k + 1.              *)
(***************************************************************************)
EXTENDS Integers, Sequences, FiniteSets, TLC

\* ------------------------------------------------------------------ bounds
NumDocs == 3
MaxEdits == 3
MaxPool == 2
MaxApply == 2
MaxBlocks == 4
MaxCrafted == 2
MaxDepStart == 1
MaxCount == 2
MaxRelayEdits == 4
MaxOriginClock == 1
MaxRangeEnd == 2
MaxDeletedRun == 2

Docs == 1..NumDocs
ClientIds == 1..NumDocs

\* ------------------------------------------------------------------ document.rs
None == <<>>

BlockId(client_id, clock) == <<client_id, clock>>

\* ------------------------------------------------------------------ block.rs
\* Block::with_value_and_right
with_value_and_right(id, left, right, value) ==
  [id |-> id, origin_left |-> left, origin_right |-> right,
   left |-> left, right |-> right,
   value |-> <<value>>, length |-> 1, deleted |-> FALSE]

\* Block::delete
delete(b) ==
  IF ~b.deleted THEN [b EXCEPT !.deleted = TRUE, !.value = <<>>] ELSE b

\* ------------------------------------------------------------------ store.rs
\* Store::new
StoreNew(client_id) ==
  [start |-> None, end |-> None, client_id |-> client_id,
   data |-> [c \in ClientIds |-> <<>>]]

\* Whether indexing the store by id succeeds (otherwise Index panics).
Holds(s, id) ==
  /\ id # None
  /\ id[1] \in ClientIds
  /\ id[2] + 1 <= Len(s.data[id[1]])

\* Index<BlockId> for Store
Blk(s, id) == s.data[id[1]][id[2] + 1]

RECURSIVE SumLen(_, _)
SumLen(data, cs) ==
  IF cs = {} THEN 0
  ELSE LET c == CHOOSE x \in cs : TRUE
       IN Len(data[c]) + SumLen(data, cs \ {c})

\* Number of blocks the store owns.
NumBlocks(s) == SumLen(s.data, ClientIds)

\* The HashMap's keys.
Keys(s) == {c \in ClientIds : s.data[c] # <<>>}

\* StoreIterator::next, run from `cur` for at most `fuel` items: the ids it yields.
RECURSIVE IterFrom(_, _, _)
IterFrom(s, cur, fuel) ==
  IF cur = None \/ fuel = 0 THEN <<>>
  ELSE <<cur>> \o IterFrom(s, Blk(s, cur).right, fuel - 1)

\* Store::iter_blocks, cut after one item more than the store has blocks:
\* a longer traversal has met some block twice and never ends.
Walk(s) == IterFrom(s, s.start, NumBlocks(s) + 1)

Cyclic(s) == Len(Walk(s)) > NumBlocks(s)

RECURSIVE Flat(_, _)
Flat(s, ids) ==
  IF ids = <<>> THEN <<>>
  ELSE Blk(s, Head(ids)).value \o Flat(s, Tail(ids))

\* Store::iter_values (a prefix of it when the traversal never ends).
Values(s) == Flat(s, Walk(s))

\* Store::iter_live_blocks().nth(n): "some" with the id, "none" when the
\* iterator ends first, "hang" when it never yields the item.
RECURSIVE LiveNthFrom(_, _, _, _)
LiveNthFrom(s, cur, n, fuel) ==
  IF cur = None THEN [kind |-> "none", id |-> None]
  ELSE IF fuel = 0 THEN [kind |-> "hang", id |-> None]
  ELSE LET b == Blk(s, cur)
       IN IF b.deleted THEN LiveNthFrom(s, b.right, n, fuel - 1)
          ELSE IF n = 0 THEN [kind |-> "some", id |-> cur]
          ELSE LiveNthFrom(s, b.right, n - 1, fuel - 1)

LiveNth(s, n) == LiveNthFrom(s, s.start, n, (n + 2) * (NumBlocks(s) + 1))

\* Store::iter_live_blocks().skip(index).take(count): the ids collected, or
\* "hang" when the iterator neither ends nor yields enough live blocks.
RECURSIVE LiveTake(_, _, _)
LiveTake(s, index, count) ==
  IF count = 0 THEN [kind |-> "ok", ids |-> <<>>]
  ELSE LET r == LiveNth(s, index)
       IN IF r.kind = "hang" THEN [kind |-> "hang", ids |-> <<>>]
          ELSE IF r.kind = "none" THEN [kind |-> "ok", ids |-> <<>>]
          ELSE LET rest == LiveTake(s, index + 1, count - 1)
               IN [kind |-> rest.kind, ids |-> <<r.id>> \o rest.ids]

\* The assignment to left written to origin_left as well.
SetLeftAndOrigin(s, id, v) ==
  [s EXCEPT !.data[id[1]][id[2] + 1].left = v,
            !.data[id[1]][id[2] + 1].origin_left = v]

\* IndexMut<BlockId> for Store, followed by an assignment to one field.
SetLeft(s, id, v) == [s EXCEPT !.data[id[1]][id[2] + 1].left = v]

\* The assignment to right done by storing a rebuilt, live block.
SetRightRebuilt(s, id, v) ==
  [s EXCEPT !.data[id[1]][id[2] + 1].right = v,
            !.data[id[1]][id[2] + 1].deleted = FALSE]

SetRight(s, id, v) == [s EXCEPT !.data[id[1]][id[2] + 1].right = v]

\* Store::add_block
add_block(s, previous, next, value) ==
  LET id == Len(s.data[s.client_id])
      block == with_value_and_right(id, previous, next, value)
      block_id == BlockId(s.client_id, id)
      s1 == [s EXCEPT !.data[s.client_id] = Append(@, block)]
      s2 == IF next # None THEN SetLeft(s1, next, block_id)
            ELSE LET s2a == IF s1.end # None THEN SetRight(s1, s1.end, block_id)
                            ELSE s1
                 IN [s2a EXCEPT !.end = block_id]
      s3 == IF previous # None THEN SetRight(s2, previous, block_id)
            ELSE LET s3a == IF s2.start # None THEN SetLeft(s2, s2.start, block_id)
                            ELSE s2
                 IN [s3a EXCEPT !.start = block_id]
  IN s3

\* Store::append passing the list head where the code passes the tail.
appendAtStart(s, value) == add_block(s, s.start, None, value)

\* Store::append
append(s, value) == add_block(s, s.end, None, value)

\* Store::insert: [kind, store]; "hang" when nth never returns.
insert(s, index, value) ==
  LET r == LiveNth(s, index)
  IN IF r.kind = "hang" THEN [kind |-> "hang", store |-> s]
     ELSE IF r.kind = "some"
       THEN [kind |-> "ok", store |-> add_block(s, r.id, Blk(s, r.id).right, value)]
       ELSE [kind |-> "ok", store |-> add_block(s, None, None, value)]

RECURSIVE DeleteAll(_, _)
DeleteAll(s, ids) ==
  IF ids = <<>> THEN s
  ELSE LET id == Head(ids)
       IN DeleteAll([s EXCEPT !.data[id[1]][id[2] + 1] = delete(@)], Tail(ids))

\* Store::delete_range: [kind, store]
delete_range(s, index, count) ==
  LET r == LiveTake(s, index, count)
  IN IF r.kind = "hang" THEN [kind |-> "hang", store |-> s]
     ELSE [kind |-> "ok", store |-> DeleteAll(s, r.ids)]

\* Store::find_insertion_point from the iterator position `cur`:
\* [kind, id], kind "ok" (id the insertion point or None), "panic" when the
\* iterator indexes a block the store does not hold, "hang" when the scan
\* never ends.
RECURSIVE FipFrom(_, _, _, _, _, _)
FipFrom(s, client_id, left, right, cur, fuel) ==
  IF cur = None THEN [kind |-> "ok", id |-> None]
  ELSE IF ~Holds(s, cur) THEN [kind |-> "panic", id |-> None]
  ELSE IF fuel = 0 THEN [kind |-> "hang", id |-> None]
  ELSE LET block == Blk(s, cur)
       IN IF cur = right THEN [kind |-> "ok", id |-> cur]
          ELSE IF block.left = left /\ cur[1] > client_id
            THEN [kind |-> "ok", id |-> cur]
          ELSE FipFrom(s, client_id, left, right, block.right, fuel - 1)

\* Store::find_insertion_point (iter_blocks_with_offset(left) starts AT left,
\* or at start when left is None).
find_insertion_point(s, client_id, left, right) ==
  FipFrom(s, client_id, left, right,
          IF left = None THEN s.start ELSE left, NumBlocks(s) + 1)

\* The body of the loop of Store::integrate for one block, given the
\* insertion point.
Link(s, client_id, block, insert_before) ==
  LET new_block_id == BlockId(client_id, block.id)
      b1 == [block EXCEPT !.right = insert_before]
  IN IF insert_before # None
       THEN LET previous_left == Blk(s, insert_before).left
                b2 == [b1 EXCEPT !.left = previous_left]
                s1 == SetLeft(s, insert_before, new_block_id)
                s2 == IF previous_left # None
                        THEN SetRight(s1, previous_left, new_block_id)
                        ELSE [s1 EXCEPT !.start = new_block_id]
            IN [s2 EXCEPT !.data[client_id] = Append(@, b2)]
     ELSE IF s.end # None
       THEN LET s1 == SetRight(s, s.end, new_block_id)
                s2 == [s1 EXCEPT !.end = new_block_id]
            IN [s2 EXCEPT !.data[client_id] = Append(@, b1)]
     ELSE [s EXCEPT !.start = new_block_id, !.end = new_block_id,
                    !.data[client_id] = Append(@, b1)]

\* Store::integrate: [kind, store]; on "panic" or "hang" the store is as the
\* blocks integrated so far left it.
RECURSIVE integrate(_, _, _)
integrate(s, client_id, blocks) ==
  IF blocks = <<>> THEN [kind |-> "ok", store |-> s]
  ELSE LET block == Head(blocks)
           p == find_insertion_point(s, client_id, block.origin_left,
                                     block.origin_right)
       IN IF p.kind # "ok" THEN [kind |-> p.kind, store |-> s]
          ELSE integrate(Link(s, client_id, block, p.id), client_id, Tail(blocks))

\* ------------------------------------------------------------------ update.rs
\* Content::Value / Content::Deleted
ContentValue(items) == [tag |-> "Value", items |-> items, n |-> 0]
ContentDeleted(n) == [tag |-> "Deleted", items |-> <<>>, n |-> n]

\* From<Block<T>> for UpdateBlock<T>
UpdateBlockFrom(block) ==
  [origin_left |-> block.origin_left, origin_right |-> block.origin_right,
   value |-> ContentValue(block.value)]

\* UpdateBlock::hydrate
hydrate(ub, id) ==
  LET length == IF ub.value.tag = "Value" THEN Len(ub.value.items) ELSE ub.value.n
      value == IF ub.value.tag = "Value" THEN ub.value.items ELSE <<>>
  IN [id |-> id, origin_left |-> ub.origin_left, origin_right |-> ub.origin_right,
      left |-> None, right |-> None,
      value |-> value, length |-> length, deleted |-> FALSE]

MapSeq(Op(_), seq) == [i \in 1..Len(seq) |-> Op(seq[i])]

RECURSIVE SelectIds(_)
SelectIds(blocks) ==
  IF blocks = <<>> THEN <<>>
  ELSE IF Head(blocks).deleted
    THEN << <<Head(blocks).id, 1>> >> \o SelectIds(Tail(blocks))
    ELSE SelectIds(Tail(blocks))

\* DeleteSet::from, the HashMap iterated in the order `order`
DeleteSetFrom(document, order) ==
  [i \in 1..Len(order) |->
     [client |-> order[i], runs |-> SelectIds(document.store.data[order[i]])]]

\* DeleteSet::empty
DeleteSetEmpty == <<>>

\* The innermost loop of DeleteSet::apply: delete the blocks of `client` at
\* the clocks clock .. clock + length - 1; [kind, store], "panic" when the
\* store holds no block at a clock.
RECURSIVE DeleteRun(_, _, _, _)
DeleteRun(s, client, clock, length) ==
  IF length = 0 THEN [kind |-> "ok", store |-> s]
  ELSE IF ~Holds(s, BlockId(client, clock)) THEN [kind |-> "panic", store |-> s]
  ELSE DeleteRun([s EXCEPT !.data[client][clock + 1] = delete(@)],
                 client, clock + 1, length - 1)

\* The loop of DeleteSet::apply over the runs of one replica.
RECURSIVE DeleteRuns(_, _, _)
DeleteRuns(s, client, runs) ==
  IF runs = <<>> THEN [kind |-> "ok", store |-> s]
  ELSE LET r == DeleteRun(s, client, Head(runs)[1], Head(runs)[2])
       IN IF r.kind # "ok" THEN r ELSE DeleteRuns(r.store, client, Tail(runs))

\* DeleteSet::apply on the store of a document: [kind, store]
RECURSIVE DeleteSetApply(_, _)
DeleteSetApply(deletes, s) ==
  IF deletes = <<>> THEN [kind |-> "ok", store |-> s]
  ELSE LET r == DeleteRuns(s, Head(deletes).client, Head(deletes).runs)
       IN IF r.kind # "ok" THEN r ELSE DeleteSetApply(Tail(deletes), r.store)

\* The orders in which a HashMap with the keys S can be iterated.
Perms(S) ==
  {f \in [1..Cardinality(S) -> S] : \A i, j \in 1..Cardinality(S) : f[i] = f[j] => i = j}

\* Update::from_document, the HashMap iterated in the order `order`
from_document(document, order) ==
  [dependency |-> [i \in 1..Len(order) |->
                     [client |-> order[i], start |-> 0,
                      end |-> Len(document.store.data[order[i]])]],
   blocks |-> [i \in 1..Len(order) |->
                 [client |-> order[i],
                  blocks |-> MapSeq(UpdateBlockFrom, document.store.data[order[i]])]],
   deletes |-> DeleteSetFrom(document, order)]

\* Update::from_blocks
from_blocks(client_id, blocks, dependency) ==
  [dependency |-> dependency,
   blocks |-> << [client |-> client_id, blocks |-> MapSeq(UpdateBlockFrom, blocks)] >>,
   deletes |-> DeleteSetEmpty]

\* ------------------------------------------------------------------ document.rs
\* Document::with_client_id
with_client_id(client_id) ==
  [clock |-> 0, client_id |-> client_id, clients |-> [c \in {} |-> 0],
   store |-> StoreNew(client_id)]

\* document.clients.get(&client_id).unwrap_or(&0)
ClockGet(document, client_id) ==
  IF client_id \in DOMAIN document.clients THEN document.clients[client_id] ELSE 0

\* ------------------------------------------------------------------ update.rs
\* The dependency check looking at the first range alone.
DependencyMissingFirstOnly(u, document) ==
  /\ u.dependency # <<>>
  /\ u.dependency[1].start > ClockGet(document, u.dependency[1].client)

\* The dependency check of Update::apply: some range starts past the clock.
DependencyMissing(u, document) ==
  \E i \in 1..Len(u.dependency) :
     u.dependency[i].start > ClockGet(document, u.dependency[i].client)

\* The second loop of Update::apply: hydrate and integrate each block list.
RECURSIVE IntegrateLists(_, _)
IntegrateLists(s, lists) ==
  IF lists = <<>> THEN [kind |-> "ok", store |-> s]
  ELSE LET l == Head(lists)
           hydrated_blocks == [i \in 1..Len(l.blocks) |-> hydrate(l.blocks[i], i - 1)]
           r == integrate(s, l.client, hydrated_blocks)
       IN IF r.kind # "ok" THEN r ELSE IntegrateLists(r.store, Tail(lists))

\* Update::apply: [kind, doc], kind "Ok", "Err", or "panic"/"hang" when the
\* call never returns a Result.
apply(u, document) ==
  IF DependencyMissing(u, document) THEN [kind |-> "Err", doc |-> document]
  ELSE LET r == IntegrateLists(document.store, u.blocks)
       IN [kind |-> IF r.kind = "ok" THEN "Ok" ELSE r.kind,
           doc |-> [document EXCEPT !.store = r.store]]

RECURSIVE CountBlocks(_)
CountBlocks(lists) ==
  IF lists = <<>> THEN 0 ELSE Len(Head(lists).blocks) + CountBlocks(Tail(lists))

\* Update::get_version_range: the range of the first dependency entry of
\* client_id, or None.
get_version_range(u, client_id) ==
  LET found == {i \in 1..Len(u.dependency) : u.dependency[i].client = client_id}
  IN IF found = {} THEN None
     ELSE u.dependency[CHOOSE i \in found : \A j \in found : i <= j]

\* Update::does_clock_exist
does_clock_exist(u, block) ==
  IF block # None
    THEN LET range == get_version_range(u, block[1])
         IN IF range # None
              THEN ~(block[2] > range.end)
              ELSE FALSE
    ELSE TRUE

ValidationOk == [tag |-> "Ok", arg |-> None]

ValidationError(tag, arg) == [tag |-> tag, arg |-> arg]

\* The inner loop of Update::validate: the first block of the list with an
\* origin that does_clock_exist rejects, as the error it returns.
RECURSIVE ValidateBlocks(_, _)
ValidateBlocks(u, blocks) ==
  IF blocks = <<>> THEN ValidationOk
  ELSE LET block == Head(blocks)
       IN IF ~does_clock_exist(u, block.origin_left)
            THEN ValidationError("UpdateOutsideRange", block.origin_left)
          ELSE IF ~does_clock_exist(u, block.origin_right)
            THEN ValidationError("UpdateOutsideRange", block.origin_right)
          ELSE ValidateBlocks(u, Tail(blocks))

\* The size test comparing the end of the range alone.
RangeEndDiffers(range, blocks) == range.end # Len(blocks)

\* The size test of Update::validate.
RangeSizeDiffers(range, blocks) == (range.end - range.start) # Len(blocks)

\* The outer loop of Update::validate from the block lists `lists` on.
RECURSIVE ValidateLists(_, _)
ValidateLists(u, lists) ==
  IF lists = <<>> THEN ValidationOk
  ELSE LET l == Head(lists)
           r == ValidateBlocks(u, l.blocks)
           range == get_version_range(u, l.client)
       IN IF r # ValidationOk THEN r
          ELSE IF range # None
            THEN IF RangeSizeDiffers(range, l.blocks)
                   THEN ValidationError("InvalidUpdateRange", l.client)
                   ELSE ValidateLists(u, Tail(lists))
            ELSE ValidationError("ClientDoesNotExist", l.client)

\* Update::validate
validate(u) == ValidateLists(u, u.blocks)

\* ------------------------------------------------------------------ state
VARIABLES
  doc,        \* doc[d]: the Document of replica d (client id d)
  status,     \* status[d]: "ok", or "panicked"/"hung" once a call on d did not return
  edits,      \* edits[d]: number of local edits made on d
  pool,       \* the Updates produced so far, each with the edits it carries, the
              \* values() of its source and whether the source had only local edits
  seen,       \* seen[d]: the local edits d has made or received in an Update
  reapplied,  \* reapplied[d]: d applied an Update carrying an edit it already had
  applied,    \* applied[d]: the Updates of the pool whose apply on d returned Ok
  napply,     \* number of Update::apply calls made
  budget,     \* number of local edits the run makes at most
  last        \* the last call made: its operation, arguments and result

vars == <<doc, status, edits, pool, seen, reapplied, applied, napply, budget, last>>

NoCall == [op |-> "none", d |-> 0, res |-> "none"]

Call(op, d, res) == [op |-> op, d |-> d, res |-> res]

\* The value a local edit on d stores. The code never inspects a value
\* (T: Clone is all it asks), so every call passes a value of its own: any
\* other choice of values is an image of this one.
NewValue(d) == 10 * d + Len(doc[d].store.data[d])

\* Number of live blocks the traversal from start meets.
LiveCount(s) ==
  Cardinality({k \in 1..Len(Walk(s)) : ~Blk(s, Walk(s)[k]).deleted})

Init ==
  /\ doc = [d \in Docs |-> with_client_id(d)]
  /\ status = [d \in Docs |-> "ok"]
  /\ edits = [d \in Docs |-> 0]
  /\ pool = {}
  /\ seen = [d \in Docs |-> {}]
  /\ reapplied = [d \in Docs |-> FALSE]
  /\ applied = [d \in Docs |-> {}]
  /\ napply = 0
  /\ budget = MaxEdits
  /\ last = NoCall

RECURSIVE SumTo(_, _)
SumTo(f, n) == IF n = 0 THEN 0 ELSE f[n] + SumTo(f, n - 1)

\* Number of local edits made on all documents.
TotalEdits == SumTo(edits, NumDocs)

CanEdit(d) ==
  /\ status[d] = "ok"
  /\ TotalEdits < budget
  /\ NumBlocks(doc[d].store) < MaxBlocks

Edited(d) ==
  /\ edits' = [edits EXCEPT ![d] = @ + 1]
  /\ seen' = [seen EXCEPT ![d] = @ \cup {<<d, edits[d] + 1>>}]
  /\ UNCHANGED <<pool, reapplied, applied, napply, budget>>

\* d holds nothing but the blocks of its own local edits.
OnlyLocal(d) == ~reapplied[d] /\ \A e \in seen[d] : e[1] = d

\* doc.store.append(v)
LocalAppend(d) ==
  /\ CanEdit(d)
  /\ doc' = [doc EXCEPT ![d].store = append(@, NewValue(d))]
  /\ status' = status
  /\ last' = Call("append", d, "ok")
  /\ Edited(d)

\* doc.store.insert(i, v)
LocalInsert(d, i) ==
  /\ CanEdit(d)
  /\ i <= LiveCount(doc[d].store)
  /\ LET r == insert(doc[d].store, i, NewValue(d))
     IN /\ doc' = [doc EXCEPT ![d].store = r.store]
        /\ status' = [status EXCEPT ![d] = IF r.kind = "ok" THEN "ok" ELSE "hung"]
        /\ last' = Call("insert", d, r.kind)
  /\ Edited(d)

\* doc.store.delete_range(i, n)
LocalDeleteRange(d, i, n) ==
  /\ status[d] = "ok"
  /\ TotalEdits < budget
  /\ i <= LiveCount(doc[d].store)
  /\ LET r == delete_range(doc[d].store, i, n)
     IN /\ doc' = [doc EXCEPT ![d].store = r.store]
        /\ status' = [status EXCEPT ![d] = IF r.kind = "ok" THEN "ok" ELSE "hung"]
        /\ last' = Call("delete_range", d, r.kind)
  /\ Edited(d)

\* Update::from_document(&doc[d]), the Update kept for later delivery
Snapshot(d, order) ==
  /\ status[d] = "ok"
  /\ Cardinality(pool) < MaxPool
  /\ Keys(doc[d].store) # {}
  /\ LET m == [u |-> from_document(doc[d], order), seen |-> seen[d],
               values |-> Values(doc[d].store), local |-> OnlyLocal(d)]
     IN /\ m \notin pool
        /\ pool' = pool \cup {m}
        /\ last' = Call("from_document", d, "ok")
  /\ UNCHANGED <<doc, status, edits, seen, reapplied, applied, napply, budget>>

\* m.u.apply(&mut doc[d]) for an Update m of the pool
ApplyUpdate(d, m) ==
  /\ status[d] = "ok"
  /\ napply < MaxApply
  /\ NumBlocks(doc[d].store) + CountBlocks(m.u.blocks) <= MaxBlocks
  /\ LET r == apply(m.u, doc[d])
     IN /\ doc' = [doc EXCEPT ![d] = r.doc]
        /\ status' = [status EXCEPT ![d] =
                        IF r.kind = "panic" THEN "panicked"
                        ELSE IF r.kind = "hang" THEN "hung" ELSE "ok"]
        /\ last' = Call("apply", d, r.kind)
        /\ seen' = [seen EXCEPT ![d] = IF r.kind = "Ok" THEN @ \cup m.seen ELSE @]
        /\ reapplied' = [reapplied EXCEPT ![d] = @ \/ (m.seen \cap seen[d] # {})]
        /\ applied' = [applied EXCEPT ![d] = IF r.kind = "Ok" THEN @ \cup {m.u} ELSE @]
  /\ napply' = napply + 1
  /\ UNCHANGED <<edits, pool, budget>>

Next ==
  \/ \E d \in Docs : LocalAppend(d)
  \/ \E d \in Docs, i \in 0..MaxBlocks : LocalInsert(d, i)
  \/ \E d \in Docs, i \in 0..MaxBlocks, n \in 1..MaxCount : LocalDeleteRange(d, i, n)
  \/ \E d \in Docs : \E order \in Perms(Keys(doc[d].store)) : Snapshot(d, order)
  \/ \E d \in Docs, m \in pool : ApplyUpdate(d, m)

Spec == Init /\ [][Next]_vars

\* ------------------------------------------------------------------ crafted updates
\* The replica that receives the hand-built Updates.
Receiver == 1

\* The replicas the hand-built Updates come from.
Authors == ClientIds \ {Receiver}

\* Origins of hand-built blocks: None, the receiver's first block or the
\* first block of replica 2.
CraftOrigins == {None, BlockId(Receiver, 0), BlockId(2, 0)}

CraftBlock(ol, or, v) == with_value_and_right(0, ol, or, v)

\* The block lists handed to Update::from_blocks for replica c: none, one
\* block with any origins, or a first block followed by a block placed
\* after some origin.
CraftLists(c) ==
  {<<>>}
  \cup {<<CraftBlock(ol, or, 10 * c + 5)>> : ol \in CraftOrigins, or \in CraftOrigins}
  \cup {<<CraftBlock(None, None, 10 * c + 5), CraftBlock(ol, None, 10 * c + 6)>> :
          ol \in CraftOrigins}

\* The dependency lists handed to Update::from_blocks: one range for replica
\* c, or a second range for another replica after it.
CraftDeps(c, n) ==
  {<<[client |-> c, start |-> s, end |-> s + n]>> : s \in 0..MaxDepStart}
  \cup {<<[client |-> c, start |-> 0, end |-> n],
          [client |-> (c % NumDocs) + 1, start |-> s, end |-> s + 1]>> :
          s \in 0..MaxDepStart}

\* Update::from_blocks(c, blocks, dependency).apply(&mut doc[d])
ApplyFromBlocks(d, c, blocks, dependency) ==
  /\ status[d] = "ok"
  /\ napply < MaxCrafted
  /\ NumBlocks(doc[d].store) + Len(blocks) <= MaxBlocks
  /\ LET u == from_blocks(c, blocks, dependency)
         r == apply(u, doc[d])
     IN /\ doc' = [doc EXCEPT ![d] = r.doc]
        /\ status' = [status EXCEPT ![d] =
                        IF r.kind = "panic" THEN "panicked"
                        ELSE IF r.kind = "hang" THEN "hung" ELSE "ok"]
        /\ last' = Call("apply", d, r.kind)
  /\ napply' = napply + 1
  /\ UNCHANGED <<edits, pool, seen, reapplied, applied, budget>>

NextCrafted ==
  \/ LocalAppend(Receiver)
  \/ \E i \in 0..MaxBlocks : LocalInsert(Receiver, i)
  \/ \E i \in 0..MaxBlocks, n \in 1..MaxCount : LocalDeleteRange(Receiver, i, n)
  \/ \E c \in Authors : \E blocks \in CraftLists(c) :
       \E dependency \in CraftDeps(c, Len(blocks)) :
         ApplyFromBlocks(Receiver, c, blocks, dependency)

SpecCrafted == Init /\ [][NextCrafted]_vars

\* ------------------------------------------------------------------ tombstone transfer
\* One replica edits and sends snapshots, a second one receives them and
\* edits on: the runs in which a deletion crosses replicas and the receiver
\* goes on editing.
Sender == 1

Relay == 2

InitRelay ==
  /\ doc = [d \in Docs |-> with_client_id(d)]
  /\ status = [d \in Docs |-> "ok"]
  /\ edits = [d \in Docs |-> 0]
  /\ pool = {}
  /\ seen = [d \in Docs |-> {}]
  /\ reapplied = [d \in Docs |-> FALSE]
  /\ applied = [d \in Docs |-> {}]
  /\ napply = 0
  /\ budget = MaxRelayEdits
  /\ last = NoCall

NextRelay ==
  \/ \E d \in {Sender, Relay} : LocalAppend(d)
  \/ \E d \in {Sender, Relay}, i \in 0..MaxBlocks : LocalInsert(d, i)
  \/ \E d \in {Sender, Relay}, i \in 0..MaxBlocks, n \in 1..MaxCount :
       LocalDeleteRange(d, i, n)
  \/ \E order \in Perms(Keys(doc[Sender].store)) : Snapshot(Sender, order)
  \/ \E m \in pool : ApplyUpdate(Relay, m)

SpecRelay == InitRelay /\ [][NextRelay]_vars

\* ------------------------------------------------------------------ validation
\* Update literals as the tests of update.rs write them, and validate()
\* called on them.
ValClients == {1, 2}

\* Origins of the blocks of the literals.
ValOrigins ==
  {None, BlockId(1, 0)} \cup {BlockId(2, k) : k \in 0..MaxOriginClock}

\* UpdateBlock::with_value
UpdateBlockWithValue(left, right, value) ==
  [origin_left |-> left, origin_right |-> right, value |-> ContentValue(<<value>>)]

\* The blocks listed for replica c: none, one block with any origins, or a
\* block without origins followed by one with an origin_left.
ValBlocks(c) ==
  {<<>>}
  \cup {<<UpdateBlockWithValue(ol, or, 10 * c)>> : ol \in ValOrigins, or \in ValOrigins}
  \cup {<<UpdateBlockWithValue(None, None, 10 * c),
          UpdateBlockWithValue(ol, None, 10 * c + 1)>> : ol \in ValOrigins}

\* The clock ranges start..end of the dependency entries.
ValRanges == {r \in (0..MaxRangeEnd) \X (0..MaxRangeEnd) : r[1] <= r[2]}

\* The block lists of a literal: at most one list for each replica.
ValLists ==
  {<<>>}
  \cup {<<[client |-> c, blocks |-> b]>> : c \in ValClients, b \in ValBlocks(1)}
  \cup {<<[client |-> c, blocks |-> b1], [client |-> 3 - c, blocks |-> b2]>> :
          c \in ValClients, b1 \in ValBlocks(1), b2 \in ValBlocks(2)}

\* The dependency list of a literal: at most one entry for each replica.
ValDeps ==
  {<<>>}
  \cup {<<[client |-> c, start |-> r[1], end |-> r[2]]>> :
          c \in ValClients, r \in ValRanges}
  \cup {<<[client |-> c, start |-> r1[1], end |-> r1[2]],
          [client |-> 3 - c, start |-> r2[1], end |-> r2[2]]>> :
          c \in ValClients, r1 \in ValRanges, r2 \in ValRanges}

\* Update { blocks, dependency, deletes: DeleteSet::empty() }
BuildUpdate(blocks, dependency) ==
  /\ pool = {}
  /\ pool' = {[u |-> [dependency |-> dependency, blocks |-> blocks,
                      deletes |-> DeleteSetEmpty],
               seen |-> {}, values |-> <<>>, local |-> FALSE]}
  /\ last' = Call("literal", 0, "ok")
  /\ UNCHANGED <<doc, status, edits, seen, reapplied, applied, napply, budget>>

\* m.u.validate()
Validate(m) ==
  /\ last.op = "literal"
  /\ last' = Call("validate", 0, validate(m.u))
  /\ UNCHANGED <<doc, status, edits, pool, seen, reapplied, applied, napply, budget>>

NextValidate ==
  \/ /\ pool = {}
     /\ \E blocks \in ValLists, dependency \in ValDeps : BuildUpdate(blocks, dependency)
  \/ \E m \in pool : Validate(m)

SpecValidate == Init /\ [][NextValidate]_vars

\* ------------------------------------------------------------------ hydration
\* The contents of the UpdateBlocks handed to hydrate: Value with up to two
\* items, or Deleted with a run length.
HydContents ==
  {ContentValue(<<>>), ContentValue(<<7>>), ContentValue(<<7, 8>>)}
  \cup {ContentDeleted(n) : n \in 0..MaxDeletedRun}

\* UpdateBlock { origin_left, origin_right, value }.hydrate(id)
Hydrate(ol, or, content, id) ==
  LET ub == [origin_left |-> ol, origin_right |-> or, value |-> content]
  IN /\ pool' = {[u |-> ub, seen |-> {}, values |-> <<>>, local |-> FALSE]}
     /\ last' = Call("hydrate", id, hydrate(ub, id))
     /\ UNCHANGED <<doc, status, edits, seen, reapplied, applied, napply, budget>>

NextHydrate ==
  \E ol \in ValOrigins, or \in ValOrigins, content \in HydContents, id \in 0..MaxBlocks :
    Hydrate(ol, or, content, id)

SpecHydrate == Init /\ [][NextHydrate]_vars

\* ------------------------------------------------------------------ sanity
\* Every link and cursor names a block the store holds.
LinksHeld ==
  \A d \in Docs :
    LET s == doc[d].store
    IN /\ s.start # None => Holds(s, s.start)
       /\ s.end # None => Holds(s, s.end)
       /\ \A c \in ClientIds : \A k \in 1..Len(s.data[c]) :
            /\ s.data[c][k].left # None => Holds(s, s.data[c][k].left)
            /\ s.data[c][k].right # None => Holds(s, s.data[c][k].right)

\* ------------------------------------------------------------------ helpers of the claims
Finite(s) == ~Cyclic(s)

Reverse(seq) == [i \in 1..Len(seq) |-> seq[Len(seq) + 1 - i]]

\* The ids met following left from `cur`, for at most `fuel` blocks.
RECURSIVE IterLeftFrom(_, _, _)
IterLeftFrom(s, cur, fuel) ==
  IF cur = None \/ fuel = 0 THEN <<>>
  ELSE <<cur>> \o IterLeftFrom(s, Blk(s, cur).left, fuel - 1)

WalkLeft(s) == IterLeftFrom(s, s.end, NumBlocks(s) + 1)

\* Every id the store holds.
AllIds(s) == {id \in ClientIds \X (0..MaxBlocks) : Holds(s, id)}

Range(seq) == {seq[i] : i \in 1..Len(seq)}

\* Position of id in the traversal from start (0 when it is not met).
Pos(s, id) ==
  IF id \in Range(Walk(s)) THEN CHOOSE i \in 1..Len(Walk(s)) : Walk(s)[i] = id ELSE 0

\* ------------------------------------------------------------------ C1
\* C1 (convergence): two documents that have made or received the same set
\* of local edits, no Update having delivered an edit twice, have finite and
\* equal values() sequences.
C1_Convergence ==
  \A d1, d2 \in Docs :
    ( /\ status[d1] = "ok" /\ status[d2] = "ok"
      /\ ~reapplied[d1] /\ ~reapplied[d2]
      /\ seen[d1] = seen[d2] )
    => /\ Finite(doc[d1].store) /\ Finite(doc[d2].store)
       /\ Values(doc[d1].store) = Values(doc[d2].store)

\* ------------------------------------------------------------------ C2
ListIntegrity(s) ==
  /\ Finite(s)
  /\ Range(Walk(s)) = AllIds(s)
  /\ Len(Walk(s)) = NumBlocks(s)
  /\ s.end = (IF Walk(s) = <<>> THEN None ELSE Walk(s)[Len(Walk(s))])
  /\ WalkLeft(s) = Reverse(Walk(s))

\* C2 (list integrity): in every reachable state, following right from start
\* visits every stored block exactly once and ends at end, and following left
\* from end visits the same blocks in reverse order.
C2_ListIntegrity ==
  \A d \in Docs : status[d] = "ok" => ListIntegrity(doc[d].store)

\* ------------------------------------------------------------------ C3
\* C3 (tie-break order): two blocks of different replicas with the same
\* origin_left and the same origin_right are met in the order of their
\* replica ids.
C3_TieBreak ==
  \A d \in Docs :
    LET s == doc[d].store
    IN (status[d] = "ok" /\ Finite(s)) =>
         \A a, b \in Range(Walk(s)) :
           ( /\ a[1] < b[1]
             /\ Blk(s, a).origin_left = Blk(s, b).origin_left
             /\ Blk(s, a).origin_right = Blk(s, b).origin_right )
           => Pos(s, a) < Pos(s, b)

\* ------------------------------------------------------------------ C4
\* C4 (idempotence): applying an Update of another replica that an earlier
\* apply on the same document has integrated returns Ok or Err and leaves
\* the document unchanged.
C4_Idempotence ==
  [][\A d \in Docs : \A m \in pool :
       ( /\ ApplyUpdate(d, m)
         /\ m.u \in applied[d]
         /\ \A e \in m.seen : e[1] # d )
       => /\ doc'[d] = doc[d]
          /\ last'.res \in {"Ok", "Err"}]_vars

\* ------------------------------------------------------------------ C5
\* Number of blocks the Update carries for replica c.
RECURSIVE BlocksFor(_, _)
BlocksFor(lists, c) ==
  IF lists = <<>> THEN 0
  ELSE (IF Head(lists).client = c THEN Len(Head(lists).blocks) ELSE 0)
       + BlocksFor(Tail(lists), c)

\* Every block of the Update was stored.
AllIntegrated(u, before, after) ==
  \A c \in ClientIds :
    Len(after.store.data[c]) = Len(before.store.data[c]) + BlocksFor(u.blocks, c)

\* Every position a run of the Update's DeleteSet covers is a tombstone.
DeletesApplied(u, after) ==
  \A i \in 1..Len(u.deletes) : \A j \in 1..Len(u.deletes[i].runs) :
    LET run == u.deletes[i].runs[j]
    IN \A k \in run[1]..(run[1] + run[2] - 1) :
         /\ Holds(after.store, BlockId(u.deletes[i].client, k))
         /\ Blk(after.store, BlockId(u.deletes[i].client, k)).deleted

AtomicOutcome(u, before, after, res) ==
  \/ res = "Ok" /\ AllIntegrated(u, before, after) /\ DeletesApplied(u, after)
  \/ res # "Ok" /\ after = before

\* C5 (atomic apply): every apply either returns Ok with all blocks of the
\* Update integrated and its DeleteSet applied, or fails and leaves the
\* document unchanged.
C5_AtomicApply ==
  [][\A c \in Authors : \A blocks \in CraftLists(c) :
       \A dependency \in CraftDeps(c, Len(blocks)) :
         ApplyFromBlocks(Receiver, c, blocks, dependency)
         => AtomicOutcome(from_blocks(c, blocks, dependency),
                          doc[Receiver], doc'[Receiver], last'.res)]_vars

\* ------------------------------------------------------------------ C6
\* C6 (missing dependency): an apply of an Update with a dependency range
\* that starts past the receiver's clock for its replica returns Err and
\* leaves the document unchanged.
C6_MissingDependency ==
  [][\A c \in Authors : \A blocks \in CraftLists(c) :
       \A dependency \in CraftDeps(c, Len(blocks)) :
         ( /\ ApplyFromBlocks(Receiver, c, blocks, dependency)
           /\ \E i \in 1..Len(dependency) :
                dependency[i].start > ClockGet(doc[Receiver], dependency[i].client) )
         => /\ last'.res = "Err"
            /\ doc'[Receiver] = doc[Receiver]]_vars

\* An apply on a document that holds blocks was rejected.
C6_Witness ==
  /\ last.op = "apply" /\ last.res = "Err"
  /\ NumBlocks(doc[Receiver].store) > 0

\* ------------------------------------------------------------------ C7
\* C7 (snapshot transfer): applying the snapshot of a document that was
\* built by local edits alone to an empty document returns Ok and gives the
\* receiver the values() of the source.
C7_SnapshotTransfer ==
  [][\A d \in Docs : \A m \in pool :
       ( /\ ApplyUpdate(d, m)
         /\ m.local
         /\ doc[d] = with_client_id(d) )
       => /\ last'.res = "Ok"
          /\ Finite(doc'[d].store)
          /\ Values(doc'[d].store) = m.values]_vars

\* ------------------------------------------------------------------ C8
\* The ids of the live blocks, in list order.
LiveIds(s) == SelectSeq(Walk(s), LAMBDA id : ~Blk(s, id).deleted)

InsertAt(seq, i, v) == SubSeq(seq, 1, i) \o <<v>> \o SubSeq(seq, i + 1, Len(seq))

\* C8 (local insert placement): insert(i, v) with i at most the number of
\* live blocks stores a block whose origin_left is the live block at
\* position i - 1 (None when i = 0) and whose origin_right is the block that
\* followed it, and values() becomes the previous sequence with v at
\* position i.
C8_InsertPlacement ==
  [][\A d \in Docs : \A i \in 0..MaxBlocks :
       (LocalInsert(d, i) /\ Finite(doc[d].store))
       => LET s == doc[d].store
              t == doc'[d].store
              nb == t.data[d][Len(s.data[d]) + 1]
              ol == IF i = 0 THEN None ELSE LiveIds(s)[i]
          IN /\ nb.origin_left = ol
             /\ nb.origin_right = (IF ol = None THEN s.start ELSE Blk(s, ol).right)
             /\ Finite(t)
             /\ Values(t) = InsertAt(Values(s), i, NewValue(d))]_vars

\* ------------------------------------------------------------------ C9
\* C9 (conflict-free remote insert): integrating one block N of a replica
\* the receiver holds nothing of, whose origins OL and OR are held and
\* adjacent (OL.right = OR), links N between OL and OR: the traversal
\* becomes the previous one with N right after OL.
C9_ConflictFreeInsert ==
  [][\A c \in Authors : \A blocks \in CraftLists(c) :
       \A dependency \in CraftDeps(c, Len(blocks)) :
         LET s == doc[Receiver].store
             t == doc'[Receiver].store
         IN ( /\ ApplyFromBlocks(Receiver, c, blocks, dependency)
              /\ last'.res = "Ok"
              /\ Len(blocks) = 1
              /\ s.data[c] = <<>>
              /\ Finite(s)
              /\ Holds(s, blocks[1].origin_left)
              /\ Holds(s, blocks[1].origin_right)
              /\ blocks[1].origin_left \in Range(Walk(s))
              /\ Blk(s, blocks[1].origin_left).right = blocks[1].origin_right )
            => /\ Finite(t)
               /\ Walk(t) = InsertAt(Walk(s), Pos(s, blocks[1].origin_left),
                                     BlockId(c, 0))
               /\ Values(t) = Flat(t, Walk(t))
               /\ Blk(t, BlockId(c, 0)).left = blocks[1].origin_left
               /\ Blk(t, BlockId(c, 0)).right = blocks[1].origin_right]_vars

RemoveRange(seq, i, n) ==
  (IF i < Len(seq) THEN SubSeq(seq, 1, i) ELSE seq)
  \o (IF i + n < Len(seq) THEN SubSeq(seq, i + n + 1, Len(seq)) ELSE <<>>)

\* The fields of a block no deletion touches.
SameButTombstone(a, b) ==
  /\ a.id = b.id /\ a.length = b.length
  /\ a.origin_left = b.origin_left /\ a.origin_right = b.origin_right
  /\ a.left = b.left /\ a.right = b.right

\* C11 (delete_range): delete_range(i, n) on a finite list tombstones
\* exactly the live blocks at live positions i .. i + n - 1 (as many as
\* exist); values() becomes the previous sequence without those positions,
\* every tombstoned block keeps its id, length, origins and links, and no
\* other block and neither cursor changes.
C11_DeleteRange ==
  [][\A d \in Docs : \A i \in 0..MaxBlocks : \A n \in 1..MaxCount :
       (LocalDeleteRange(d, i, n) /\ Finite(doc[d].store))
       => LET s == doc[d].store
              t == doc'[d].store
              hit == Range(RemoveRange(LiveIds(s), 0, i))
                     \ Range(RemoveRange(LiveIds(s), 0, i + n))
          IN /\ last'.res = "ok"
             /\ t.start = s.start /\ t.end = s.end /\ t.client_id = s.client_id
             /\ \A c \in ClientIds : Len(t.data[c]) = Len(s.data[c])
             /\ \A id \in AllIds(s) :
                  IF id \in hit
                    THEN /\ Blk(t, id).deleted /\ Blk(t, id).value = <<>>
                         /\ SameButTombstone(Blk(s, id), Blk(t, id))
                    ELSE Blk(t, id) = Blk(s, id)
             /\ Values(t) = RemoveRange(Values(s), i, n)]_vars

\* ------------------------------------------------------------------ C12
\* C12 (clock density): in every reachable state the block at position i of
\* a replica's sequence has id i.
C12_ClockDensity ==
  \A d \in Docs : status[d] = "ok" =>
    \A c \in ClientIds : \A k \in 1..Len(doc[d].store.data[c]) :
      doc[d].store.data[c][k].id = k - 1

\* ------------------------------------------------------------------ C13
\* C13 (tombstone permanence): every step keeps every stored block at its
\* position in its replica's sequence, and a block that is deleted before
\* the step is deleted after it.
C13_TombstonePermanence ==
  [][\A d \in Docs : \A c \in ClientIds :
       /\ Len(doc'[d].store.data[c]) >= Len(doc[d].store.data[c])
       /\ \A k \in 1..Len(doc[d].store.data[c]) :
            /\ doc'[d].store.data[c][k].id = doc[d].store.data[c][k].id
            /\ doc[d].store.data[c][k].deleted => doc'[d].store.data[c][k].deleted]_vars

\* A document holding a tombstone went through an append, an insert or an
\* apply that linked a block next to stored ones.
C13_Witness ==
  /\ last.op \in {"append", "insert", "apply"}
  /\ last.res \in {"ok", "Ok"}
  /\ \E id \in AllIds(doc[last.d].store) :
       /\ Blk(doc[last.d].store, id).deleted
       /\ Blk(doc[last.d].store, id).right # None

\* ------------------------------------------------------------------ C14
\* C14 (origin immutability): every step leaves origin_left, origin_right,
\* id and length of every stored block as they were.
C14_OriginImmutability ==
  [][\A d \in Docs : \A c \in ClientIds :
       \A k \in 1..Len(doc[d].store.data[c]) :
         /\ k <= Len(doc'[d].store.data[c])
         /\ doc'[d].store.data[c][k].origin_left = doc[d].store.data[c][k].origin_left
         /\ doc'[d].store.data[c][k].origin_right = doc[d].store.data[c][k].origin_right
         /\ doc'[d].store.data[c][k].id = doc[d].store.data[c][k].id
         /\ doc'[d].store.data[c][k].length = doc[d].store.data[c][k].length]_vars

\* An insert or an apply relinked a stored block: its left link is no
\* longer its origin_left.
C14_Witness ==
  /\ last.op \in {"insert", "apply"}
  /\ last.res \in {"ok", "Ok"}
  /\ \E id \in AllIds(doc[last.d].store) :
       Blk(doc[last.d].store, id).left # Blk(doc[last.d].store, id).origin_left

\* ------------------------------------------------------------------ C15
\* C15 (DeleteSet applied): after an apply that returns Ok, every position
\* a run of the Update's DeleteSet covers is a tombstone in the receiver.
C15_DeleteSetApplied ==
  [][\A d \in Docs : \A m \in pool :
       (ApplyUpdate(d, m) /\ last'.res = "Ok")
       => DeletesApplied(m.u, doc'[d])]_vars

\* ------------------------------------------------------------------ C16
\* C16 (ClockVector tracking): after an apply that returns Ok the receiver's
\* ClockVector entry of every replica is the number of that replica's blocks
\* the store holds, is not below its former value, and is at least the end
\* of every dependency range of the Update.
C16_ClockVector ==
  [][\A d \in Docs : \A m \in pool :
       (ApplyUpdate(d, m) /\ last'.res = "Ok")
       => /\ \A c \in ClientIds :
               /\ ClockGet(doc'[d], c) = Len(doc'[d].store.data[c])
               /\ ClockGet(doc'[d], c) >= ClockGet(doc[d], c)
          /\ \A i \in 1..Len(m.u.dependency) :
               ClockGet(doc'[d], m.u.dependency[i].client) >= m.u.dependency[i].end]_vars

\* ------------------------------------------------------------------ C17
\* id lies inside a clock range the dependency list declares for its replica.
InDeclaredRange(u, id) ==
  \E i \in 1..Len(u.dependency) :
    /\ u.dependency[i].client = id[1]
    /\ u.dependency[i].start <= id[2]
    /\ id[2] < u.dependency[i].end

\* The first origin of the blocks, origin_left before origin_right, that is
\* set and lies outside every declared range (None when there is none).
RECURSIVE FirstOutside(_, _)
FirstOutside(u, blocks) ==
  IF blocks = <<>> THEN None
  ELSE LET ol == Head(blocks).origin_left
           or == Head(blocks).origin_right
       IN IF ol # None /\ ~InDeclaredRange(u, ol) THEN ol
          ELSE IF or # None /\ ~InDeclaredRange(u, or) THEN or
          ELSE FirstOutside(u, Tail(blocks))

\* The replica of the list has a dependency entry / one of the size of the list.
HasEntry(u, l) == \E i \in 1..Len(u.dependency) : u.dependency[i].client = l.client

SizeMatches(u, l) ==
  \E i \in 1..Len(u.dependency) :
    /\ u.dependency[i].client = l.client
    /\ u.dependency[i].end - u.dependency[i].start = Len(l.blocks)

\* The result the validation rules give, the lists taken in order.
RECURSIVE Expected(_, _)
Expected(u, lists) ==
  IF lists = <<>> THEN ValidationOk
  ELSE LET l == Head(lists)
       IN IF FirstOutside(u, l.blocks) # None
            THEN ValidationError("UpdateOutsideRange", FirstOutside(u, l.blocks))
          ELSE IF ~HasEntry(u, l) THEN ValidationError("ClientDoesNotExist", l.client)
          ELSE IF ~SizeMatches(u, l) THEN ValidationError("InvalidUpdateRange", l.client)
          ELSE Expected(u, Tail(lists))

\* The Update validate() was last called on.
Validated == (CHOOSE m \in pool : TRUE).u

\* C17 (validation of origins): when the first failure of an Update, its
\* lists taken in order, is an origin outside every declared range
\* (no entry, clock < start or clock >= end), validate returns
\* UpdateOutsideRange of that origin; and an origin validate reports lies
\* outside every declared range.
C17_ValidateOrigins ==
  last.op = "validate" =>
    /\ Expected(Validated, Validated.blocks).tag = "UpdateOutsideRange"
         => last.res = Expected(Validated, Validated.blocks)
    /\ last.res.tag = "UpdateOutsideRange"
         => ~InDeclaredRange(Validated, last.res.arg)

\* ------------------------------------------------------------------ C18
\* Every origin of every block lies inside a declared range.
OriginsDeclared(u) ==
  \A i \in 1..Len(u.blocks) : FirstOutside(u, u.blocks[i].blocks) = None

\* C18 (validation of block lists): for an Update whose origins all lie
\* inside declared ranges, validate returns ClientDoesNotExist(r) for the
\* first list whose replica r has no dependency entry, InvalidUpdateRange(r)
\* for the first list whose declared range size differs from its number of
\* blocks, and Ok when no list has either fault.
C18_ValidateLists ==
  (last.op = "validate" /\ OriginsDeclared(Validated))
  => /\ last.res = Expected(Validated, Validated.blocks)
     /\ last.res.tag \in {"Ok", "ClientDoesNotExist", "InvalidUpdateRange"}

\* validate returned InvalidUpdateRange for the second list of an Update
\* with blocks whose origins are declared.
C18_Witness ==
  /\ last.op = "validate"
  /\ OriginsDeclared(Validated)
  /\ Len(Validated.blocks) = 2
  /\ \E i \in 1..2 : \E k \in 1..Len(Validated.blocks[i].blocks) :
       Validated.blocks[i].blocks[k].origin_left # None
  /\ last.res = ValidationError("InvalidUpdateRange", Validated.blocks[2].client)

\* ------------------------------------------------------------------ C19
\* C19 (values() is finite): in every reachable state the traversal from
\* start along right ends, and a deleted block it meets yields no value.
C19_ValuesFinite ==
  \A d \in Docs : status[d] = "ok" =>
    /\ Finite(doc[d].store)
    /\ \A id \in Range(Walk(doc[d].store)) :
         Blk(doc[d].store, id).deleted => Blk(doc[d].store, id).value = <<>>

\* ------------------------------------------------------------------ C20
\* C20 (tombstone extent survives a snapshot): when the snapshot of a
\* document D is applied to an empty document and returns Ok, every block of
\* D is held by the receiver at the same replica and clock with the same
\* origin_left, origin_right and length.
C20_SnapshotExtent ==
  [][\A d \in Docs : \A m \in pool : \A s \in Docs \ {d} :
       ( /\ ApplyUpdate(d, m)
         /\ doc[d] = with_client_id(d)
         /\ last'.res = "Ok"
         /\ \E order \in Perms(Keys(doc[s].store)) :
              from_document(doc[s], order) = m.u )
       => \A c \in ClientIds : \A k \in 1..Len(doc[s].store.data[c]) :
            /\ k <= Len(doc'[d].store.data[c])
            /\ doc'[d].store.data[c][k].id = doc[s].store.data[c][k].id
            /\ doc'[d].store.data[c][k].origin_left = doc[s].store.data[c][k].origin_left
            /\ doc'[d].store.data[c][k].origin_right = doc[s].store.data[c][k].origin_right
            /\ doc'[d].store.data[c][k].length = doc[s].store.data[c][k].length]_vars

\* ------------------------------------------------------------------ C22
\* The scan of the insertion-point rule from the block `cur` on: the first
\* block that is OR, or whose left is OL and whose replica id is above A;
\* None when the scan passes the tail.
RECURSIVE RuleScan(_, _, _, _, _, _)
RuleScan(s, A, OL, OR, cur, fuel) ==
  IF cur = None \/ fuel = 0 THEN None
  ELSE IF cur = OR \/ (Blk(s, cur).left = OL /\ cur[1] > A) THEN cur
  ELSE RuleScan(s, A, OL, OR, Blk(s, cur).right, fuel - 1)

\* The insertion point by the rule: the scan starts right after OL, or at
\* the list head when OL is None.
RulePoint(s, A, OL, OR) ==
  RuleScan(s, A, OL, OR, IF OL = None THEN s.start ELSE Blk(s, OL).right,
           NumBlocks(s) + 1)

\* C22 (insertion-point rule): on every reachable finite list, for every
\* author A and all origins OL and OR the store holds (or None),
\* find_insertion_point returns the block the rule's scan from right after
\* OL finds, and None when that scan passes the tail.
C22_InsertionPoint ==
  \A d \in Docs :
    LET s == doc[d].store
    IN (status[d] = "ok" /\ Finite(s)) =>
         \A A \in ClientIds : \A OL, OR \in AllIds(s) \cup {None} :
           find_insertion_point(s, A, OL, OR)
             = [kind |-> "ok", id |-> RulePoint(s, A, OL, OR)]

\* ------------------------------------------------------------------ C23
\* C23 (linking step of integrate): integrating one block N of a replica
\* the receiver holds nothing of, with insertion point P, links N between
\* P's former left neighbour and P (start = N when P was the head); with P
\* None it links N after the former tail and makes it the tail; on an empty
\* list N is start and end.
C23_LinkingStep ==
  [][\A c \in Authors : \A blocks \in CraftLists(c) :
       \A dependency \in CraftDeps(c, Len(blocks)) :
         LET s == doc[Receiver].store
             t == doc'[Receiver].store
             N == BlockId(c, 0)
             P == find_insertion_point(s, c, blocks[1].origin_left,
                                       blocks[1].origin_right).id
         IN ( /\ ApplyFromBlocks(Receiver, c, blocks, dependency)
              /\ last'.res = "Ok"
              /\ Len(blocks) = 1
              /\ s.data[c] = <<>> )
            => IF P # None
                 THEN /\ Blk(t, N).right = P
                      /\ Blk(t, N).left = Blk(s, P).left
                      /\ Blk(t, P).left = N
                      /\ IF Blk(s, P).left # None
                           THEN Blk(t, Blk(s, P).left).right = N /\ t.start = s.start
                           ELSE t.start = N
                      /\ t.end = s.end
               ELSE IF s.end # None
                 THEN /\ Blk(t, N).left = s.end
                      /\ Blk(t, s.end).right = N
                      /\ Blk(t, N).right = None
                      /\ t.end = N /\ t.start = s.start
               ELSE t.start = N /\ t.end = N
                    /\ Blk(t, N).left = None /\ Blk(t, N).right = None]_vars

\* ------------------------------------------------------------------ C24
\* The UpdateBlock hydrate was last called on.
Hydrated == (CHOOSE m \in pool : TRUE).u

\* C24 (hydration): hydrate(ub, c) gives a block with id c, the origins of
\* ub and no links; Value(items) gives a live block holding the items, of
\* length Len(items); Deleted(n) gives a tombstone of length n without
\* values.
C24_Hydration ==
  last.op = "hydrate" =>
    LET ub == Hydrated
        b == last.res
    IN /\ b.id = last.d
       /\ b.origin_left = ub.origin_left /\ b.origin_right = ub.origin_right
       /\ b.left = None /\ b.right = None
       /\ IF ub.value.tag = "Value"
            THEN ~b.deleted /\ b.value = ub.value.items
                 /\ b.length = Len(ub.value.items)
            ELSE b.deleted /\ b.value = <<>> /\ b.length = ub.value.n

\* ------------------------------------------------------------------ C25
\* The ids the runs of a DeleteSet cover.
Covered(deletes) ==
  {BlockId(deletes[i].client, k) :
     i \in 1..Len(deletes), k \in 0..MaxBlocks}
  \cap {id \in ClientIds \X (0..MaxBlocks) :
          \E i \in 1..Len(deletes) : \E j \in 1..Len(deletes[i].runs) :
            /\ deletes[i].client = id[1]
            /\ deletes[i].runs[j][1] <= id[2]
            /\ id[2] < deletes[i].runs[j][1] + deletes[i].runs[j][2]}

\* The ids of the tombstones of a store.
Tombstones(s) == {id \in AllIds(s) : Blk(s, id).deleted}

RECURSIVE LiveBlocks(_)
LiveBlocks(blocks) ==
  IF blocks = <<>> THEN <<>>
  ELSE <<[Head(blocks) EXCEPT !.deleted = FALSE]>> \o LiveBlocks(Tail(blocks))

\* The store with the same blocks, none of them deleted.
AllLive(s) == [s EXCEPT !.data = [c \in ClientIds |-> LiveBlocks(s.data[c])]]

\* The delete set of a document applied to the same blocks, none deleted.
AppliedToLive(document, order) ==
  DeleteSetApply(DeleteSetFrom(document, order), AllLive(document.store))

\* C25 (DeleteSet round trip): for every reachable document D,
\* DeleteSet::from(D) covers exactly the ids of D's deleted blocks; applied
\* to a document with the same blocks it makes the tombstones those of D,
\* applied to D it changes nothing, and applied twice it gives what one
\* application gives.
C25_DeleteSetRoundTrip ==
  \A d \in Docs : status[d] = "ok" =>
    \A order \in Perms(Keys(doc[d].store)) :
      /\ Covered(DeleteSetFrom(doc[d], order)) = Tombstones(doc[d].store)
      /\ AppliedToLive(doc[d], order).kind = "ok"
      /\ Tombstones(AppliedToLive(doc[d], order).store) = Tombstones(doc[d].store)
      /\ DeleteSetApply(DeleteSetFrom(doc[d], order), doc[d].store)
           = [kind |-> "ok", store |-> doc[d].store]
      /\ DeleteSetApply(DeleteSetFrom(doc[d], order), AppliedToLive(doc[d], order).store)
           = AppliedToLive(doc[d], order)

\* ------------------------------------------------------------------ C26
\* The snapshot declares for each replica the range 0..len(blocks) and
\* carries one UpdateBlock per stored block.
FullExtent(document, order) ==
  \A i \in 1..Len(order) :
    /\ from_document(document, order).dependency[i]
         = [client |-> order[i], start |-> 0,
            end |-> Len(document.store.data[order[i]])]
    /\ from_document(document, order).blocks[i].client = order[i]
    /\ Len(from_document(document, order).blocks[i].blocks)
         = Len(document.store.data[order[i]])

\* C26 (a snapshot is always valid): for every reachable Document D,
\* Update::from_document(D).validate() returns Ok: each replica's dependency
\* range is 0..len(blocks) with one UpdateBlock per stored block, and every
\* origin of every block lies in a declared range.
C26_SnapshotValid ==
  \A d \in Docs : status[d] = "ok" =>
    \A order \in Perms(Keys(doc[d].store)) :
      /\ validate(from_document(doc[d], order)) = ValidationOk
      /\ FullExtent(doc[d], order)
      /\ OriginsDeclared(from_document(doc[d], order))

\* ------------------------------------------------------------------ C27
\* Block a is met strictly before block b in the traversal from start.
Before(s, a, b) == Pos(s, a) > 0 /\ Pos(s, b) > 0 /\ Pos(s, a) < Pos(s, b)

OneBlockAdded(s, t) ==
  /\ Finite(t)
  /\ Len(Walk(t)) = Len(Walk(s)) + 1
  /\ Range(Walk(s)) \subseteq Range(Walk(t))
  /\ SelectSeq(Walk(t), LAMBDA id : id \in Range(Walk(s))) = Walk(s)
  /\ \A id \in Range(Walk(s)) :
       /\ Blk(t, id).value = Blk(s, id).value
       /\ Blk(t, id).length = Blk(s, id).length
       /\ Blk(t, id).deleted = Blk(s, id).deleted

\* C28 (insertion preserves what was there): each append, each insert and
\* each integration of a single block, on a Store with a traversal that
\* ends, adds exactly one block to the traversal from start and keeps the
\* blocks met before, their relative order, values, lengths and deleted bits.
C28_InsertionPreserves ==
  [][/\ ( LocalAppend(Receiver) /\ Finite(doc[Receiver].store) )
          => OneBlockAdded(doc[Receiver].store, doc'[Receiver].store)
     /\ \A i \in 0..MaxBlocks :
          ( LocalInsert(Receiver, i) /\ Finite(doc[Receiver].store)
            /\ last'.res = "ok" )
          => OneBlockAdded(doc[Receiver].store, doc'[Receiver].store)
     /\ \A c \in Authors : \A blocks \in CraftLists(c) :
          \A dependency \in CraftDeps(c, Len(blocks)) :
            ( /\ ApplyFromBlocks(Receiver, c, blocks, dependency)
              /\ Finite(doc[Receiver].store)
              /\ Len(blocks) = 1
              /\ last'.res = "Ok" )
            => OneBlockAdded(doc[Receiver].store, doc'[Receiver].store)]_vars

====
